---- MODULE Spec2Model ----
(***************************************************************************)
(* A model of adventure.py: the two tabular loaders, the two regex         *)
(* extractors and the demonstration entry point.                           *)
(*                                                                         *)
(* Text is a sequence of one-character strings.  A call result is a record *)
(* [ret, raised, out]: the returned value, the exception that left the     *)
(* call ("none" when it returned normally) and the lines it printed.       *)
(***************************************************************************)
EXTENDS Integers, Sequences, FiniteSets, TLC

VARIABLES
    journal_text,   \* the text handed to the extractors
    dates_out,      \* outcome of extract_journal_dates(journal_text)
    codes_out,      \* outcome of extract_secret_codes(journal_text)
    stdout,         \* everything printed so far, in order
    last,           \* the last loader call: function, path, read outcome, result
    pc,             \* position of the __main__ block
    started,        \* stages of the __main__ block whose header was printed
    calls,          \* functions of the module the __main__ block has invoked
    artifacts_df,   \* __main__'s artifacts_df
    locations_df,   \* __main__'s locations_df
    uncaught        \* exception that ended the __main__ block, "none" if none

vars == <<journal_text, dates_out, codes_out, stdout, last, pc, started, calls,
          artifacts_df, locations_df, uncaught>>

extractVars == <<journal_text, dates_out, codes_out>>
loadVars    == <<stdout, last>>
mainVars    == <<pc, started, calls, artifacts_df, locations_df, uncaught>>

-----------------------------------------------------------------------------
(* Bounds *)

\* number of fragments concatenated into an input text
MaxFrags == 3
\* number of loader calls in one behaviour of SpecLoad
MaxCalls == 2

-----------------------------------------------------------------------------
(* Python exceptions *)

\* The part of Python's exception hierarchy the handlers of the module
\* distinguish.  IOError is an alias of OSError.
Parent(cls) ==
    CASE cls = "FileNotFoundError" -> "OSError"
      [] cls = "PermissionError"   -> "OSError"
      [] cls = "BrokenPipeError"   -> "OSError"
      [] cls = "IOError"           -> "OSError"
      [] cls = "OSError"           -> "Exception"
      [] cls = "EmptyDataError"    -> "ValueError"
      [] cls = "ValueError"        -> "Exception"
      [] cls = "NameError"         -> "Exception"
      [] cls = "LookupError"       -> "Exception"
      [] cls = "KeyError"          -> "LookupError"
      [] cls = "KeyboardInterrupt" -> "BaseException"
      [] cls = "SystemExit"        -> "BaseException"
      [] cls = "Exception"         -> "BaseException"
      [] OTHER                     -> "object"

Canon(cls) == IF cls = "IOError" THEN "OSError" ELSE cls

RECURSIVE IsInstance(_, _)
IsInstance(exc, cls) ==
    IF Canon(exc) = Canon(cls) THEN TRUE
    ELSE IF exc \in {"BaseException", "object"} THEN FALSE
    ELSE IsInstance(Parent(exc), cls)

None == [kind |-> "None"]

-----------------------------------------------------------------------------
(* Characters and regular expressions *)

\* A character is a one-character string; a character outside ASCII is
\* written by its code point, "U+0663" for ARABIC-INDIC DIGIT THREE.

AsciiDigits == {"0", "1", "2", "3", "4", "5", "6", "7", "8", "9"}

\* [1-9]
AsciiNonZero == AsciiDigits \ {"0"}

\* The decimal digits of Unicode (category Nd), the characters \d matches in
\* a str pattern and int() converts: each row is the digits zero to nine of
\* one script.
NdRuns ==
    <<
       <<"0", "1", "2", "3", "4", "5", "6", "7", "8", "9">>,
       <<"U+0660", "U+0661", "U+0662", "U+0663", "U+0664", "U+0665", "U+0666", "U+0667", "U+0668", "U+0669">>,
       <<"U+06F0", "U+06F1", "U+06F2", "U+06F3", "U+06F4", "U+06F5", "U+06F6", "U+06F7", "U+06F8", "U+06F9">>,
       <<"U+07C0", "U+07C1", "U+07C2", "U+07C3", "U+07C4", "U+07C5", "U+07C6", "U+07C7", "U+07C8", "U+07C9">>,
       <<"U+0966", "U+0967", "U+0968", "U+0969", "U+096A", "U+096B", "U+096C", "U+096D", "U+096E", "U+096F">>,
       <<"U+09E6", "U+09E7", "U+09E8", "U+09E9", "U+09EA", "U+09EB", "U+09EC", "U+09ED", "U+09EE", "U+09EF">>,
       <<"U+0A66", "U+0A67", "U+0A68", "U+0A69", "U+0A6A", "U+0A6B", "U+0A6C", "U+0A6D", "U+0A6E", "U+0A6F">>,
       <<"U+0AE6", "U+0AE7", "U+0AE8", "U+0AE9", "U+0AEA", "U+0AEB", "U+0AEC", "U+0AED", "U+0AEE", "U+0AEF">>,
       <<"U+0B66", "U+0B67", "U+0B68", "U+0B69", "U+0B6A", "U+0B6B", "U+0B6C", "U+0B6D", "U+0B6E", "U+0B6F">>,
       <<"U+0BE6", "U+0BE7", "U+0BE8", "U+0BE9", "U+0BEA", "U+0BEB", "U+0BEC", "U+0BED", "U+0BEE", "U+0BEF">>,
       <<"U+0C66", "U+0C67", "U+0C68", "U+0C69", "U+0C6A", "U+0C6B", "U+0C6C", "U+0C6D", "U+0C6E", "U+0C6F">>,
       <<"U+0CE6", "U+0CE7", "U+0CE8", "U+0CE9", "U+0CEA", "U+0CEB", "U+0CEC", "U+0CED", "U+0CEE", "U+0CEF">>,
       <<"U+0D66", "U+0D67", "U+0D68", "U+0D69", "U+0D6A", "U+0D6B", "U+0D6C", "U+0D6D", "U+0D6E", "U+0D6F">>,
       <<"U+0DE6", "U+0DE7", "U+0DE8", "U+0DE9", "U+0DEA", "U+0DEB", "U+0DEC", "U+0DED", "U+0DEE", "U+0DEF">>,
       <<"U+0E50", "U+0E51", "U+0E52", "U+0E53", "U+0E54", "U+0E55", "U+0E56", "U+0E57", "U+0E58", "U+0E59">>,
       <<"U+0ED0", "U+0ED1", "U+0ED2", "U+0ED3", "U+0ED4", "U+0ED5", "U+0ED6", "U+0ED7", "U+0ED8", "U+0ED9">>,
       <<"U+0F20", "U+0F21", "U+0F22", "U+0F23", "U+0F24", "U+0F25", "U+0F26", "U+0F27", "U+0F28", "U+0F29">>,
       <<"U+1040", "U+1041", "U+1042", "U+1043", "U+1044", "U+1045", "U+1046", "U+1047", "U+1048", "U+1049">>,
       <<"U+1090", "U+1091", "U+1092", "U+1093", "U+1094", "U+1095", "U+1096", "U+1097", "U+1098", "U+1099">>,
       <<"U+17E0", "U+17E1", "U+17E2", "U+17E3", "U+17E4", "U+17E5", "U+17E6", "U+17E7", "U+17E8", "U+17E9">>,
       <<"U+1810", "U+1811", "U+1812", "U+1813", "U+1814", "U+1815", "U+1816", "U+1817", "U+1818", "U+1819">>,
       <<"U+1946", "U+1947", "U+1948", "U+1949", "U+194A", "U+194B", "U+194C", "U+194D", "U+194E", "U+194F">>,
       <<"U+19D0", "U+19D1", "U+19D2", "U+19D3", "U+19D4", "U+19D5", "U+19D6", "U+19D7", "U+19D8", "U+19D9">>,
       <<"U+1A80", "U+1A81", "U+1A82", "U+1A83", "U+1A84", "U+1A85", "U+1A86", "U+1A87", "U+1A88", "U+1A89">>,
       <<"U+1A90", "U+1A91", "U+1A92", "U+1A93", "U+1A94", "U+1A95", "U+1A96", "U+1A97", "U+1A98", "U+1A99">>,
       <<"U+1B50", "U+1B51", "U+1B52", "U+1B53", "U+1B54", "U+1B55", "U+1B56", "U+1B57", "U+1B58", "U+1B59">>,
       <<"U+1BB0", "U+1BB1", "U+1BB2", "U+1BB3", "U+1BB4", "U+1BB5", "U+1BB6", "U+1BB7", "U+1BB8", "U+1BB9">>,
       <<"U+1C40", "U+1C41", "U+1C42", "U+1C43", "U+1C44", "U+1C45", "U+1C46", "U+1C47", "U+1C48", "U+1C49">>,
       <<"U+1C50", "U+1C51", "U+1C52", "U+1C53", "U+1C54", "U+1C55", "U+1C56", "U+1C57", "U+1C58", "U+1C59">>,
       <<"U+A620", "U+A621", "U+A622", "U+A623", "U+A624", "U+A625", "U+A626", "U+A627", "U+A628", "U+A629">>,
       <<"U+A8D0", "U+A8D1", "U+A8D2", "U+A8D3", "U+A8D4", "U+A8D5", "U+A8D6", "U+A8D7", "U+A8D8", "U+A8D9">>,
       <<"U+A900", "U+A901", "U+A902", "U+A903", "U+A904", "U+A905", "U+A906", "U+A907", "U+A908", "U+A909">>,
       <<"U+A9D0", "U+A9D1", "U+A9D2", "U+A9D3", "U+A9D4", "U+A9D5", "U+A9D6", "U+A9D7", "U+A9D8", "U+A9D9">>,
       <<"U+A9F0", "U+A9F1", "U+A9F2", "U+A9F3", "U+A9F4", "U+A9F5", "U+A9F6", "U+A9F7", "U+A9F8", "U+A9F9">>,
       <<"U+AA50", "U+AA51", "U+AA52", "U+AA53", "U+AA54", "U+AA55", "U+AA56", "U+AA57", "U+AA58", "U+AA59">>,
       <<"U+ABF0", "U+ABF1", "U+ABF2", "U+ABF3", "U+ABF4", "U+ABF5", "U+ABF6", "U+ABF7", "U+ABF8", "U+ABF9">>,
       <<"U+FF10", "U+FF11", "U+FF12", "U+FF13", "U+FF14", "U+FF15", "U+FF16", "U+FF17", "U+FF18", "U+FF19">>,
       <<"U+104A0", "U+104A1", "U+104A2", "U+104A3", "U+104A4", "U+104A5", "U+104A6", "U+104A7", "U+104A8", "U+104A9">>,
       <<"U+10D30", "U+10D31", "U+10D32", "U+10D33", "U+10D34", "U+10D35", "U+10D36", "U+10D37", "U+10D38", "U+10D39">>,
       <<"U+11066", "U+11067", "U+11068", "U+11069", "U+1106A", "U+1106B", "U+1106C", "U+1106D", "U+1106E", "U+1106F">>,
       <<"U+110F0", "U+110F1", "U+110F2", "U+110F3", "U+110F4", "U+110F5", "U+110F6", "U+110F7", "U+110F8", "U+110F9">>,
       <<"U+11136", "U+11137", "U+11138", "U+11139", "U+1113A", "U+1113B", "U+1113C", "U+1113D", "U+1113E", "U+1113F">>,
       <<"U+111D0", "U+111D1", "U+111D2", "U+111D3", "U+111D4", "U+111D5", "U+111D6", "U+111D7", "U+111D8", "U+111D9">>,
       <<"U+112F0", "U+112F1", "U+112F2", "U+112F3", "U+112F4", "U+112F5", "U+112F6", "U+112F7", "U+112F8", "U+112F9">>,
       <<"U+11450", "U+11451", "U+11452", "U+11453", "U+11454", "U+11455", "U+11456", "U+11457", "U+11458", "U+11459">>,
       <<"U+114D0", "U+114D1", "U+114D2", "U+114D3", "U+114D4", "U+114D5", "U+114D6", "U+114D7", "U+114D8", "U+114D9">>,
       <<"U+11650", "U+11651", "U+11652", "U+11653", "U+11654", "U+11655", "U+11656", "U+11657", "U+11658", "U+11659">>,
       <<"U+116C0", "U+116C1", "U+116C2", "U+116C3", "U+116C4", "U+116C5", "U+116C6", "U+116C7", "U+116C8", "U+116C9">>,
       <<"U+11730", "U+11731", "U+11732", "U+11733", "U+11734", "U+11735", "U+11736", "U+11737", "U+11738", "U+11739">>,
       <<"U+118E0", "U+118E1", "U+118E2", "U+118E3", "U+118E4", "U+118E5", "U+118E6", "U+118E7", "U+118E8", "U+118E9">>,
       <<"U+11950", "U+11951", "U+11952", "U+11953", "U+11954", "U+11955", "U+11956", "U+11957", "U+11958", "U+11959">>,
       <<"U+11C50", "U+11C51", "U+11C52", "U+11C53", "U+11C54", "U+11C55", "U+11C56", "U+11C57", "U+11C58", "U+11C59">>,
       <<"U+11D50", "U+11D51", "U+11D52", "U+11D53", "U+11D54", "U+11D55", "U+11D56", "U+11D57", "U+11D58", "U+11D59">>,
       <<"U+11DA0", "U+11DA1", "U+11DA2", "U+11DA3", "U+11DA4", "U+11DA5", "U+11DA6", "U+11DA7", "U+11DA8", "U+11DA9">>,
       <<"U+16A60", "U+16A61", "U+16A62", "U+16A63", "U+16A64", "U+16A65", "U+16A66", "U+16A67", "U+16A68", "U+16A69">>,
       <<"U+16AC0", "U+16AC1", "U+16AC2", "U+16AC3", "U+16AC4", "U+16AC5", "U+16AC6", "U+16AC7", "U+16AC8", "U+16AC9">>,
       <<"U+16B50", "U+16B51", "U+16B52", "U+16B53", "U+16B54", "U+16B55", "U+16B56", "U+16B57", "U+16B58", "U+16B59">>,
       <<"U+1D7CE", "U+1D7CF", "U+1D7D0", "U+1D7D1", "U+1D7D2", "U+1D7D3", "U+1D7D4", "U+1D7D5", "U+1D7D6", "U+1D7D7">>,
       <<"U+1D7D8", "U+1D7D9", "U+1D7DA", "U+1D7DB", "U+1D7DC", "U+1D7DD", "U+1D7DE", "U+1D7DF", "U+1D7E0", "U+1D7E1">>,
       <<"U+1D7E2", "U+1D7E3", "U+1D7E4", "U+1D7E5", "U+1D7E6", "U+1D7E7", "U+1D7E8", "U+1D7E9", "U+1D7EA", "U+1D7EB">>,
       <<"U+1D7EC", "U+1D7ED", "U+1D7EE", "U+1D7EF", "U+1D7F0", "U+1D7F1", "U+1D7F2", "U+1D7F3", "U+1D7F4", "U+1D7F5">>,
       <<"U+1D7F6", "U+1D7F7", "U+1D7F8", "U+1D7F9", "U+1D7FA", "U+1D7FB", "U+1D7FC", "U+1D7FD", "U+1D7FE", "U+1D7FF">>,
       <<"U+1E140", "U+1E141", "U+1E142", "U+1E143", "U+1E144", "U+1E145", "U+1E146", "U+1E147", "U+1E148", "U+1E149">>,
       <<"U+1E2F0", "U+1E2F1", "U+1E2F2", "U+1E2F3", "U+1E2F4", "U+1E2F5", "U+1E2F6", "U+1E2F7", "U+1E2F8", "U+1E2F9">>,
       <<"U+1E950", "U+1E951", "U+1E952", "U+1E953", "U+1E954", "U+1E955", "U+1E956", "U+1E957", "U+1E958", "U+1E959">>,
       <<"U+1FBF0", "U+1FBF1", "U+1FBF2", "U+1FBF3", "U+1FBF4", "U+1FBF5", "U+1FBF6", "U+1FBF7", "U+1FBF8", "U+1FBF9">>
    >>

\* \d
Digits == UNION { {NdRuns[r][k] : k \in 1..10} : r \in DOMAIN NdRuns }

\* int() of one decimal digit
DigitVal(c) ==
    CASE c = "0" -> 0 [] c = "1" -> 1 [] c = "2" -> 2 [] c = "3" -> 3
      [] c = "4" -> 4 [] c = "5" -> 5 [] c = "6" -> 6 [] c = "7" -> 7
      [] c = "8" -> 8 [] c = "9" -> 9
      [] OTHER -> (CHOOSE k \in 1..10 : \E r \in DOMAIN NdRuns : NdRuns[r][k] = c) - 1

\* int() of a run of decimal digits
RECURSIVE IntOf(_)
IntOf(ds) ==
    IF ds = <<>> THEN 0
    ELSE 10 * IntOf(SubSeq(ds, 1, Len(ds) - 1)) + DigitVal(ds[Len(ds)])

\* r"(?<!\d)\d{2}/\d{2}/\d{4}(?!\d)": a pattern that looks at the characters
\* around the match, a faulty variant of date_pattern
date_pattern_anchored(s, i) ==
    /\ i >= 1 /\ i + 9 <= Len(s)
    /\ \A k \in {0, 1, 3, 4, 6, 7, 8, 9} : s[i + k] \in Digits
    /\ s[i + 2] = "/" /\ s[i + 5] = "/"
    /\ (i = 1 \/ s[i - 1] \notin Digits)
    /\ (i + 9 = Len(s) \/ s[i + 10] \notin Digits)

\* r"\d{2}/\d{2}/\d{4}" matches s at position i (unanchored, 10 characters)
date_pattern(s, i) ==
    /\ i >= 1 /\ i + 9 <= Len(s)
    /\ \A k \in {0, 1, 3, 4, 6, 7, 8, 9} : s[i + k] \in Digits
    /\ s[i + 2] = "/" /\ s[i + 5] = "/"

\* length of every match of date_pattern
DateLen == 10

AZMAR == <<"A", "Z", "M", "A", "R", "-">>

\* r"AZMAR-[1-9]{3}": a digit class that leaves out 0, a faulty variant of code_pattern
code_pattern_nonzero(s, i) ==
    /\ i >= 1 /\ i + 8 <= Len(s)
    /\ SubSeq(s, i, i + 5) = AZMAR
    /\ \A k \in {6, 7, 8} : s[i + k] \in AsciiNonZero

\* r"AZMAR-\d{3}" matches s at position i (unanchored, 9 characters)
code_pattern(s, i) ==
    /\ i >= 1 /\ i + 8 <= Len(s)
    /\ SubSeq(s, i, i + 5) = AZMAR
    /\ \A k \in {6, 7, 8} : s[i + k] \in Digits

\* length of every match of code_pattern
CodeLen == 9

\* the two compiled patterns of the module: does the pattern match s at i,
\* and how long is the match
re_match(pattern, s, i) ==
    CASE pattern = "date_pattern" -> date_pattern(s, i)
      [] pattern = "code_pattern" -> code_pattern(s, i)

match_len(pattern) ==
    CASE pattern = "date_pattern" -> DateLen
      [] pattern = "code_pattern" -> CodeLen

\* re.findall for a pattern without groups: scan left to right; on a match
\* take it and resume right after it, otherwise advance by one character.
re_findall(pattern, s) ==
    LET n == match_len(pattern)
        scan[i \in 1..(Len(s) + 1)] ==
            IF i > Len(s) THEN <<>>
            ELSE IF re_match(pattern, s, i)
                 THEN <<SubSeq(s, i, i + n - 1)>> \o scan[i + n]
                 ELSE scan[i + 1]
    IN scan[1]

-----------------------------------------------------------------------------
(* datetime.strptime(date, "%m/%d/%Y") *)

IsLeap(y) == (y % 4 = 0 /\ y % 100 # 0) \/ y % 400 = 0

DaysInMonth(m, y) ==
    IF m = 2 THEN (IF IsLeap(y) THEN 29 ELSE 28)
    ELSE IF m \in {4, 6, 9, 11} THEN 30 ELSE 31

\* %m is 1[0-2]|0[1-9]|[1-9], on the characters of the field
MonthField(f) ==
    IF Len(f) = 2
    THEN (f[1] = "1" /\ f[2] \in {"0", "1", "2"}) \/ (f[1] = "0" /\ f[2] \in AsciiNonZero)
    ELSE Len(f) = 1 /\ f[1] \in AsciiNonZero

\* %d is 3[0-1]|[1-2]\d|0[1-9]|[1-9]| [1-9], on the characters of the field
DayField(f) ==
    IF Len(f) = 2
    THEN \/ (f[1] = "3" /\ f[2] \in {"0", "1"})
         \/ (f[1] \in {"1", "2"} /\ f[2] \in Digits)
         \/ (f[1] = "0" /\ f[2] \in AsciiNonZero)
         \/ (f[1] = " " /\ f[2] \in AsciiNonZero)
    ELSE Len(f) = 1 /\ f[1] \in AsciiNonZero

\* int() of a day field, which may start with a space
DayValue(f) == IF f[1] = " " THEN DigitVal(f[2]) ELSE IntOf(f)

ParseError == [exc |-> "ValueError", month |-> 0, day |-> 0, year |-> 0]

\* The regular expression of the format "%m/%d/%Y" applied to the whole
\* string: a month field of one or two characters, "/", a day field of one or
\* two characters, "/", four decimal digits, and nothing after them.  Each
\* field ends at the next "/", which no alternative of %m or %d contains.
ParseFields(date) ==
    LET n  == Len(date)
        lm == IF n >= 2 /\ date[2] = "/" THEN 1 ELSE 2
        ds == lm + 2
        ld == IF n >= ds + 1 /\ date[ds + 1] = "/" THEN 1 ELSE 2
        ys == ds + ld + 1
    IN IF /\ n >= lm + 1 /\ date[lm + 1] = "/"
          /\ MonthField(SubSeq(date, 1, lm))
          /\ n >= ds + ld /\ date[ds + ld] = "/"
          /\ DayField(SubSeq(date, ds, ds + ld - 1))
          /\ n >= ys + 3
          /\ \A k \in 0..3 : date[ys + k] \in Digits
          /\ n = ys + 3
       THEN [exc |-> "none", month |-> IntOf(SubSeq(date, 1, lm)),
             day |-> DayValue(SubSeq(date, ds, ds + ld - 1)),
             year |-> IntOf(SubSeq(date, ys, ys + 3))]
       ELSE ParseError

\* a parser that only applies the format's regular expression and builds no
\* calendar date: a faulty variant of strptime
strptime_syntactic(date) == ParseFields(date)

\* The format's regular expression must match the whole string; the fields
\* are converted with int(); building the date raises ValueError for year 0
\* and for a day the month does not have in that year.
strptime(date) ==
    LET parsed == ParseFields(date)
    IN IF parsed.exc # "none" THEN parsed
       ELSE IF parsed.year < 1 \/ parsed.day > DaysInMonth(parsed.month, parsed.year)
       THEN ParseError
       ELSE parsed

-----------------------------------------------------------------------------
(* The extractors *)

\* the loop with the try/except removed: a faulty variant of validate_loop
RECURSIVE validate_loop_no_except(_, _, _)
validate_loop_no_except(dates, k, valid_dates) ==
    IF k > Len(dates) THEN [ret |-> valid_dates, raised |-> "none", out |-> <<>>]
    ELSE LET parsed_date == strptime(dates[k])
         IN IF parsed_date.exc # "none"
            THEN [ret |-> <<>>, raised |-> parsed_date.exc, out |-> <<>>]
            ELSE validate_loop_no_except(dates, k + 1, Append(valid_dates, dates[k]))

\* a loop that inserts at the front: a faulty variant of validate_loop
RECURSIVE validate_loop_prepend(_, _, _)
validate_loop_prepend(dates, k, valid_dates) ==
    IF k > Len(dates) THEN [ret |-> valid_dates, raised |-> "none", out |-> <<>>]
    ELSE LET parsed_date == strptime(dates[k])
         IN IF parsed_date.exc # "none"
            THEN validate_loop_prepend(dates, k + 1, valid_dates)
            ELSE validate_loop_prepend(dates, k + 1, <<dates[k]>> \o valid_dates)

\* the for loop of extract_journal_dates, from its k-th candidate on
RECURSIVE validate_loop(_, _, _)
validate_loop(dates, k, valid_dates) ==
    IF k > Len(dates) THEN [ret |-> valid_dates, raised |-> "none", out |-> <<>>]
    ELSE LET date == dates[k]
             parsed_date == strptime(date)
         IN IF parsed_date.exc # "none"
            THEN IF IsInstance(parsed_date.exc, "ValueError")
                 THEN validate_loop(dates, k + 1, valid_dates)
                 ELSE [ret |-> <<>>, raised |-> parsed_date.exc, out |-> <<>>]
            ELSE IF /\ 1 <= parsed_date.month /\ parsed_date.month <= 12
                    /\ 1 <= parsed_date.day /\ parsed_date.day <= 31
                 THEN validate_loop(dates, k + 1, Append(valid_dates, date))
                 ELSE validate_loop(dates, k + 1, valid_dates)

extract_journal_dates(text) ==
    LET dates == re_findall("date_pattern", text)
    IN validate_loop(dates, 1, <<>>)

\* first occurrences only, in order
RECURSIVE Dedup(_, _)
Dedup(q, seen) ==
    IF q = <<>> THEN <<>>
    ELSE IF Head(q) \in seen THEN Dedup(Tail(q), seen)
    ELSE <<Head(q)>> \o Dedup(Tail(q), seen \cup {Head(q)})

\* an extractor that drops repeated codes: a faulty variant of
\* extract_secret_codes
extract_secret_codes_dedup(text) ==
    [ret |-> Dedup(re_findall("code_pattern", text), {}), raised |-> "none", out |-> <<>>]

extract_secret_codes(text) ==
    LET codes == re_findall("code_pattern", text)
    IN [ret |-> codes, raised |-> "none", out |-> <<>>]

-----------------------------------------------------------------------------
(* Input texts *)

Scenario ==
    <<"F","o","u","n","d"," ","o","n"," ","0","1","/","1","5","/","2","0","2","3"," ",
      "n","e","a","r"," ","A","Z","M","A","R","-","0","4","2",","," ","a","l","s","o"," ",
      "9","9","/","9","9","/","9","9","9","9"," ","a","n","d"," ",
      "A","Z","M","A","R","-","7",".">>

Fragments ==
    { <<"0","1","/","1","5","/","2","0","2","3">>,
      <<"0","2","/","3","0","/","2","0","2","4">>,
      <<"1","3","/","0","1","/","2","0","2","4">>,
      <<"0","2","/","2","9","/","2","0","2","3">>,
      <<"0","2","/","2","9","/","2","0","2","4">>,
      <<"0","1","/","0","1","/","0","0","0","0">>,
      <<"/","0","0","/","2","0","0","5">>,
      <<"0","1","/","1","U+0665","/","U+0662","U+0660","U+0662","U+0663">>,
      <<"U+0660","1","/","1","5","/","2","0","2","3">>,
      <<"0","1","/","3","U+0661","/","2","0","2","3">>,
      <<"U+0660","U+FF14","U+0968">>,
      <<"1">>,
      <<"9">>,
      AZMAR,
      <<"A","Z","M","A","R","-","0","4","2">>,
      <<"A","Z","M","A","R","-","1","2","3">> }

RECURSIVE Concat(_)
Concat(fs) == IF fs = <<>> THEN <<>> ELSE fs[1] \o Concat(Tail(fs))

Texts ==
    {Scenario} \cup
    { Concat(fs) : fs \in UNION { [1..n -> Fragments] : n \in 0..MaxFrags } }

NotCalled == [called |-> FALSE, ret |-> <<>>, raised |-> "none"]

Returned(r) == [called |-> TRUE, ret |-> r.ret, raised |-> r.raised]

-----------------------------------------------------------------------------
(* Specification of the extractors: a text is chosen, each extractor is    *)
(* applied to it once.                                                     *)

\* no loader has been called and nothing has been printed
LoadIdle ==
    /\ stdout = <<>>
    /\ last = [fn |-> "none", path |-> "none", outcome |-> "none",
               ret |-> None, raised |-> "none", out |-> <<>>, n |-> 0]

\* the __main__ block is not running
MainIdle ==
    /\ pc = "idle"
    /\ started = <<>>
    /\ calls = <<>>
    /\ artifacts_df = None
    /\ locations_df = None
    /\ uncaught = "none"

ExtractInit ==
    /\ journal_text \in Texts
    /\ dates_out = NotCalled
    /\ codes_out = NotCalled
    /\ LoadIdle
    /\ MainIdle

CallExtractDates ==
    /\ ~dates_out.called
    /\ dates_out' = Returned(extract_journal_dates(journal_text))
    /\ UNCHANGED <<journal_text, codes_out, loadVars, mainVars>>

CallExtractCodes ==
    /\ ~codes_out.called
    /\ codes_out' = Returned(extract_secret_codes(journal_text))
    /\ UNCHANGED <<journal_text, dates_out, loadVars, mainVars>>

ExtractNext == CallExtractDates \/ CallExtractCodes

SpecExtract == ExtractInit /\ [][ExtractNext]_vars

-----------------------------------------------------------------------------
(* try/except *)

\* index of the first except clause that catches exc, 0 when none does
Dispatch(exc, handlers) ==
    IF \E k \in DOMAIN handlers : IsInstance(exc, handlers[k].cls)
    THEN CHOOSE k \in DOMAIN handlers :
            /\ IsInstance(exc, handlers[k].cls)
            /\ \A j \in 1..(k - 1) : ~IsInstance(exc, handlers[j].cls)
    ELSE 0

\* a printed line: its fixed text, and the path and the exception formatted
\* into it ("" when the line has no such field)
Line(text, path, exc) == [text |-> text, path |-> path, exc |-> exc]

\* how the clause that catches exc formats its line: with the path, with the
\* exception, or with both
Formatted(h, path, exc) ==
    Line(h.text,
         IF h.arg \in {"path", "both"} THEN path ELSE "",
         IF h.arg \in {"exc", "both"} THEN exc ELSE "")

\* what a tabular read can do: succeed, or raise one of these exceptions
ReadOutcomes ==
    {"ok", "FileNotFoundError", "EmptyDataError", "PermissionError", "IOError",
     "ValueError"}

Paths == {"artifacts.xlsx", "locations.tsv", "nowhere.dat"}

-----------------------------------------------------------------------------
(* The loaders *)

\* the clauses with the generic I/O clause first: a faulty variant of ArtifactHandlers
ArtifactHandlers_IOFirst ==
    << [cls |-> "IOError", text |-> "Error: I/O error occurred while accessing", arg |-> "both"],
       [cls |-> "FileNotFoundError", text |-> "Error: File not found at", arg |-> "path"],
       [cls |-> "EmptyDataError", text |-> "Error: The file is empty.", arg |-> "path"],
       [cls |-> "Exception", text |-> "An unexpected error occurred", arg |-> "exc"] >>

\* the except clauses of load_artifact_data, in order
ArtifactHandlers ==
    << [cls |-> "FileNotFoundError", text |-> "Error: File not found at", arg |-> "path"],
       [cls |-> "EmptyDataError", text |-> "Error: The file is empty.", arg |-> "path"],
       [cls |-> "IOError", text |-> "Error: I/O error occurred while accessing", arg |-> "both"],
       [cls |-> "Exception", text |-> "An unexpected error occurred", arg |-> "exc"] >>

\* the clauses without the final "except Exception": a faulty variant of LocationHandlers
LocationHandlers_NoFallback ==
    << [cls |-> "FileNotFoundError", text |-> "Error: File not found at", arg |-> "path"],
       [cls |-> "EmptyDataError", text |-> "Error: The file is empty.", arg |-> "path"],
       [cls |-> "IOError", text |-> "Error: I/O error occurred while accessing", arg |-> "both"] >>

\* the except clauses of load_location_notes, in order
LocationHandlers ==
    << [cls |-> "FileNotFoundError", text |-> "Error: File not found at", arg |-> "path"],
       [cls |-> "EmptyDataError", text |-> "Error: The file is empty.", arg |-> "path"],
       [cls |-> "IOError", text |-> "Error: I/O error occurred while accessing", arg |-> "both"],
       [cls |-> "Exception", text |-> "An unexpected error occurred", arg |-> "exc"] >>

\* pd.read_excel(path, sheet_name='Main Chamber', skiprows=3) when it succeeds
ExcelFrame(path) ==
    [kind |-> "DataFrame", source |-> path, sheet |-> "Main Chamber", skiprows |-> 3,
     sep |-> ""]

\* pd.read_csv(path, sep='\t') when it succeeds
TsvFrame(path) ==
    [kind |-> "DataFrame", source |-> path, sheet |-> "", skiprows |-> 0, sep |-> "\t"]

\* a try block whose body raised exc, with the given except clauses, each of
\* which prints one line and returns None
ReturnNoneOn(exc, handlers, path) ==
    LET k == Dispatch(exc, handlers)
    IN IF k = 0 THEN [ret |-> None, raised |-> exc, out |-> <<>>]
       ELSE [ret |-> None, raised |-> "none",
             out |-> <<Formatted(handlers[k], path, exc)>>]

\* outcome is what pd.read_excel does on this call
load_artifact_data(excel_filepath, outcome) ==
    IF outcome = "ok"
    THEN [ret |-> ExcelFrame(excel_filepath), raised |-> "none", out |-> <<>>]
    ELSE ReturnNoneOn(outcome, ArtifactHandlers, excel_filepath)

\* outcome is what pd.read_csv does on this call
load_location_notes(tsv_filepath, outcome) ==
    IF outcome = "ok"
    THEN [ret |-> TsvFrame(tsv_filepath), raised |-> "none", out |-> <<>>]
    ELSE ReturnNoneOn(outcome, LocationHandlers, tsv_filepath)

-----------------------------------------------------------------------------
(* Specification of the loaders: up to MaxCalls calls, each on some path   *)
(* and with some outcome of the underlying read.                           *)

LoadInit ==
    /\ journal_text = <<>>
    /\ dates_out = NotCalled
    /\ codes_out = NotCalled
    /\ LoadIdle
    /\ MainIdle

Record(fn, path, outcome, r) ==
    [fn |-> fn, path |-> path, outcome |-> outcome, ret |-> r.ret,
     raised |-> r.raised, out |-> r.out, n |-> last.n + 1]

CallLoadArtifact ==
    /\ last.n < MaxCalls
    /\ \E path \in Paths, outcome \in ReadOutcomes :
          LET r == load_artifact_data(path, outcome)
          IN /\ stdout' = stdout \o r.out
             /\ last' = Record("load_artifact_data", path, outcome, r)
    /\ UNCHANGED <<extractVars, mainVars>>

CallLoadLocation ==
    /\ last.n < MaxCalls
    /\ \E path \in Paths, outcome \in ReadOutcomes :
          LET r == load_location_notes(path, outcome)
          IN /\ stdout' = stdout \o r.out
             /\ last' = Record("load_location_notes", path, outcome, r)
    /\ UNCHANGED <<extractVars, mainVars>>

LoadNext == CallLoadArtifact \/ CallLoadLocation

SpecLoad == LoadInit /\ [][LoadNext]_vars

-----------------------------------------------------------------------------
(* The __main__ block *)

EXCEL_FILE   == "artifacts.xlsx"
TSV_FILE     == "locations.tsv"
JOURNAL_FILE == "journal.txt"

\* the names bound in the module's namespace when the journal stage runs
\* (Python names are case-sensitive)
GlobalNames ==
    {"re", "datetime", "pd", "load_artifact_data", "load_location_notes",
     "extract_journal_dates", "extract_secret_codes", "EXCEL_FILE", "TSV_FILE",
     "JOURNAL_FILE", "artifacts_df", "locations_df"}

\* evaluating a name: NameError when it is not bound
NameLookup(name) == IF name \in GlobalNames THEN "none" ELSE "NameError"

\* what printing a loaded table (head(), then info()) can do: succeed, or
\* raise at one of the two calls
DisplayOutcomes ==
    { [at |-> "none", exc |-> "none"],
      [at |-> "head", exc |-> "ValueError"],
      [at |-> "info", exc |-> "BrokenPipeError"] }

\* what open()/read() of the journal can do
OpenOutcomes == {"ok", "FileNotFoundError", "PermissionError"}

\* the except clauses around the artifact stage
ArtifactStageHandlers ==
    << [cls |-> "FileNotFoundError", text |-> "Error: File not found at", arg |-> "path"],
       [cls |-> "Exception", text |-> "An error occurred loading artifact data", arg |-> "exc"] >>

\* the except clauses around the location stage
LocationStageHandlers ==
    << [cls |-> "FileNotFoundError", text |-> "Error: File not found at", arg |-> "path"],
       [cls |-> "Exception", text |-> "An error occurred loading location data", arg |-> "exc"] >>

\* the clauses without the final "except Exception": a faulty variant of
\* JournalStageHandlers
JournalStageHandlers_NoFallback ==
    << [cls |-> "FileNotFoundError", text |-> "Error: File not found", arg |-> "exc"],
       [cls |-> "IOError", text |-> "Error: IOError occurred", arg |-> "exc"],
       [cls |-> "OSError", text |-> "Error: OS Error occurred", arg |-> "exc"] >>

\* the except clauses around the journal stage
JournalStageHandlers ==
    << [cls |-> "FileNotFoundError", text |-> "Error: File not found", arg |-> "exc"],
       [cls |-> "IOError", text |-> "Error: IOError occurred", arg |-> "exc"],
       [cls |-> "OSError", text |-> "Error: OS Error occurred", arg |-> "exc"],
       [cls |-> "Exception", text |-> "An unexpected error occurred", arg |-> "exc"] >>

\* the body of "if df is not None:": four prints, the second and the fourth
\* of which call head() and info()
Show(df, display) ==
    IF df = None THEN [raised |-> "none", out |-> <<>>]
    ELSE IF display.at = "head"
    THEN [raised |-> display.exc,
          out |-> <<Line("Successfully loaded DataFrame. First 5 rows:", "", "")>>]
    ELSE IF display.at = "info"
    THEN [raised |-> display.exc,
          out |-> <<Line("Successfully loaded DataFrame. First 5 rows:", "", ""),
                    Line("head", df.source, ""), Line("DataFrame Info:", "", "")>>]
    ELSE [raised |-> "none",
          out |-> <<Line("Successfully loaded DataFrame. First 5 rows:", "", ""),
                    Line("head", df.source, ""), Line("DataFrame Info:", "", ""),
                    Line("info", df.source, "")>>]

\* a try block of the __main__ block whose body printed out and raised exc
\* ("none" when it completed), with the given except clauses, each of which
\* prints one line
StageTry(out, exc, handlers, path) ==
    IF exc = "none" THEN [raised |-> "none", out |-> out]
    ELSE LET k == Dispatch(exc, handlers)
         IN IF k = 0 THEN [raised |-> exc, out |-> out]
            ELSE [raised |-> "none",
                  out |-> Append(out, Formatted(handlers[k], path, exc))]

\* a loader stage: the loader's call, the assignment, the display
LoaderStage(r, display, handlers, path) ==
    IF r.raised # "none" THEN StageTry(r.out, r.raised, handlers, path)
    ELSE LET shown == Show(r.ret, display)
         IN StageTry(r.out \o shown.out, shown.raised, handlers, path)

\* the statement that follows a stage: reached unless an exception left it
After(t, next) == IF t.raised = "none" THEN next ELSE "aborted"

MainInit ==
    /\ journal_text = <<>>
    /\ dates_out = NotCalled
    /\ codes_out = NotCalled
    /\ LoadIdle
    /\ pc = "artifacts"
    /\ started = <<>>
    /\ calls = <<>>
    /\ artifacts_df = None
    /\ locations_df = None
    /\ uncaught = "none"

\* the header print and the first try statement
ArtifactStage ==
    /\ pc = "artifacts"
    /\ \E outcome \in ReadOutcomes, display \in DisplayOutcomes :
          LET r == load_artifact_data(EXCEL_FILE, outcome)
              t == LoaderStage(r, display, ArtifactStageHandlers, EXCEL_FILE)
          IN /\ stdout' = stdout \o <<Line("--- Loading Artifact Data from", EXCEL_FILE, "")>>
                                 \o t.out
             /\ last' = Record("load_artifact_data", EXCEL_FILE, outcome, r)
             /\ artifacts_df' = IF r.raised = "none" THEN r.ret ELSE artifacts_df
             /\ uncaught' = t.raised
             /\ pc' = After(t, "locations")
    /\ started' = Append(started, "artifacts")
    /\ calls' = Append(calls, "load_artifact_data")
    /\ UNCHANGED <<extractVars, locations_df>>

\* the header print and the second try statement
LocationStage ==
    /\ pc = "locations"
    /\ \E outcome \in ReadOutcomes, display \in DisplayOutcomes :
          LET r == load_location_notes(TSV_FILE, outcome)
              t == LoaderStage(r, display, LocationStageHandlers, TSV_FILE)
          IN /\ stdout' = stdout \o <<Line("--- Loading Location Notes from", TSV_FILE, "")>>
                                 \o t.out
             /\ last' = Record("load_location_notes", TSV_FILE, outcome, r)
             /\ locations_df' = IF r.raised = "none" THEN r.ret ELSE locations_df
             /\ uncaught' = t.raised
             /\ pc' = After(t, "journal")
    /\ started' = Append(started, "locations")
    /\ calls' = Append(calls, "load_location_notes")
    /\ UNCHANGED <<extractVars, artifacts_df>>

\* the header print and the third try statement, after which the file ends.
\* The argument of open() is the name journal_file; open() runs only if the
\* name is bound.
JournalStage ==
    /\ pc = "journal"
    /\ \E opened \in OpenOutcomes :
          LET looked == NameLookup("journal_file")
              exc == IF looked # "none" THEN looked
                     ELSE IF opened = "ok" THEN "none" ELSE opened
              t == StageTry(<<>>, exc, JournalStageHandlers, JOURNAL_FILE)
          IN /\ stdout' = stdout \o <<Line("--- Processing Journal from", JOURNAL_FILE, "")>>
                                 \o t.out
             /\ uncaught' = t.raised
             /\ pc' = After(t, "done")
    /\ started' = Append(started, "journal")
    /\ UNCHANGED <<extractVars, last, calls, artifacts_df, locations_df>>

MainNext == ArtifactStage \/ LocationStage \/ JournalStage

SpecMain == MainInit /\ [][MainNext]_vars

-----------------------------------------------------------------------------
(* Vocabulary of the properties of the extractors, stated on the text      *)
(* itself and not through the operators above.                             *)

Range(q) == {q[k] : k \in DOMAIN q}

Count(q, x) == Cardinality({k \in DOMAIN q : q[k] = x})

\* the ten characters of s from position i on have the shape dd/dd/dddd
DateShapeAt(s, i) ==
    /\ i >= 1 /\ i + 9 <= Len(s)
    /\ s[i] \in Digits /\ s[i + 1] \in Digits /\ s[i + 2] = "/"
    /\ s[i + 3] \in Digits /\ s[i + 4] \in Digits /\ s[i + 5] = "/"
    /\ s[i + 6] \in Digits /\ s[i + 7] \in Digits
    /\ s[i + 8] \in Digits /\ s[i + 9] \in Digits

\* the nine characters of s from position i on are "AZMAR-" and three digits
CodeShapeAt(s, i) ==
    /\ i >= 1 /\ i + 8 <= Len(s)
    /\ s[i] = "A" /\ s[i + 1] = "Z" /\ s[i + 2] = "M" /\ s[i + 3] = "A"
    /\ s[i + 4] = "R" /\ s[i + 5] = "-"
    /\ s[i + 6] \in Digits /\ s[i + 7] \in Digits /\ s[i + 8] \in Digits

TwoDigits(a, b) == 10 * DigitVal(a) + DigitVal(b)

MonthOf(d) == TwoDigits(d[1], d[2])
DayOf(d)   == TwoDigits(d[4], d[5])
YearOf(d)  == 1000 * DigitVal(d[7]) + 100 * DigitVal(d[8]) + TwoDigits(d[9], d[10])

\* month in 1..12 and day in 1..31, nothing more
InSyntacticBounds(d) ==
    /\ 1 <= MonthOf(d) /\ MonthOf(d) <= 12
    /\ 1 <= DayOf(d) /\ DayOf(d) <= 31

MonthLengths == <<31, 28, 31, 30, 31, 30, 31, 31, 30, 31, 30, 31>>

LeapYear(y) == IF y % 100 = 0 THEN y % 400 = 0 ELSE y % 4 = 0

\* a date of the proleptic Gregorian calendar, years 1 to 9999
OnCalendar(d) ==
    /\ 1 <= MonthOf(d) /\ MonthOf(d) <= 12
    /\ 1 <= YearOf(d)
    /\ 1 <= DayOf(d)
    /\ DayOf(d) <= MonthLengths[MonthOf(d)]
                     + (IF MonthOf(d) = 2 /\ LeapYear(YearOf(d)) THEN 1 ELSE 0)

\* the month and the day of d are written the way the format accepts them:
\* in ASCII digits, except that the second digit of the day may be any
\* decimal digit when the first is 1 or 2
WrittenForFormat(d) ==
    /\ d[1] \in AsciiDigits /\ d[2] \in AsciiDigits
    /\ d[4] \in AsciiDigits
    /\ (d[5] \in AsciiDigits \/ d[4] \in {"1", "2"})

\* The date-shaped candidates of s in order of appearance: the leftmost shape,
\* then the leftmost shape that starts after its end, and so on.
RECURSIVE CandidatesFrom(_, _)
CandidatesFrom(s, i) ==
    IF i + 9 > Len(s) THEN <<>>
    ELSE IF DateShapeAt(s, i) THEN <<SubSeq(s, i, i + 9)>> \o CandidatesFrom(s, i + 10)
    ELSE CandidatesFrom(s, i + 1)

Candidates(s) == CandidatesFrom(s, 1)

\* every position of s at which the code shape starts, in increasing order
RECURSIVE CodeShapesFrom(_, _)
CodeShapesFrom(s, i) ==
    IF i > Len(s) THEN <<>>
    ELSE (IF CodeShapeAt(s, i) THEN <<SubSeq(s, i, i + 8)>> ELSE <<>>)
         \o CodeShapesFrom(s, i + 1)

\* q[k..] can be read off s from position i on, left to right, without overlap
RECURSIVE OccursInOrder(_, _, _, _)
OccursInOrder(q, k, s, i) ==
    IF k > Len(q) THEN TRUE
    ELSE IF i + Len(q[k]) - 1 > Len(s) THEN FALSE
    ELSE IF SubSeq(s, i, i + Len(q[k]) - 1) = q[k]
         THEN OccursInOrder(q, k + 1, s, i + Len(q[k]))
         ELSE OccursInOrder(q, k, s, i + 1)

\* q is a subsequence of r
RECURSIVE IsSubseq(_, _)
IsSubseq(q, r) ==
    IF q = <<>> THEN TRUE
    ELSE IF r = <<>> THEN FALSE
    ELSE IF Head(q) = Head(r) THEN IsSubseq(Tail(q), Tail(r))
    ELSE IsSubseq(q, Tail(r))

D_01_15_2023 == <<"0","1","/","1","5","/","2","0","2","3">>
D_02_29_2024 == <<"0","2","/","2","9","/","2","0","2","4">>
D_02_30_2024 == <<"0","2","/","3","0","/","2","0","2","4">>
D_13_01_2024 == <<"1","3","/","0","1","/","2","0","2","4">>
AZMAR_042    == <<"A","Z","M","A","R","-","0","4","2">>
AZMAR_123    == <<"A","Z","M","A","R","-","1","2","3">>

-----------------------------------------------------------------------------
(* Claims about the extractors, checked under SpecExtract                  *)

\* C1 as stated: extract_journal_dates returns every candidate whose month is
\* in 1..12 and whose day is in 1..31, whatever the month and the year, so
\* "02/30/2024" is returned.
C1_SyntacticBoundsOnly ==
    dates_out.called =>
        LET cands == Candidates(journal_text)
            returned == Range(dates_out.ret)
        IN \A k \in DOMAIN cands : InSyntacticBounds(cands[k]) => cands[k] \in returned

\* C1 amended: extract_journal_dates returns a candidate exactly when it is a
\* date of the calendar: month in 1..12, year in 1..9999 and day between 1 and
\* the number of days of that month in that year (leap years included), with
\* month and day written in the digits the format accepts; so "02/29/2024" is
\* returned and "02/30/2024" is not.
C1_CalendarAware ==
    dates_out.called =>
        LET cands == Candidates(journal_text)
            returned == Range(dates_out.ret)
        IN /\ \A k \in DOMAIN cands :
                 cands[k] \in returned
                     <=> (OnCalendar(cands[k]) /\ WrittenForFormat(cands[k]))
           /\ D_02_30_2024 \notin returned

C1_Witness ==
    /\ dates_out.called
    /\ journal_text = D_02_29_2024 \o D_02_30_2024
    /\ dates_out.ret = <<D_02_29_2024>>

\* C2: every string extract_journal_dates returns has the shape dd/dd/dddd with
\* month in 1..12 and day in 1..31; a candidate outside these bounds is never
\* returned, and no exception leaves the call.
C2_ReturnedDatesInBounds ==
    dates_out.called =>
        LET cands == Candidates(journal_text)
            returned == Range(dates_out.ret)
        IN /\ dates_out.raised = "none"
           /\ \A d \in returned :
                 DateShapeAt(d, 1) /\ Len(d) = 10 /\ InSyntacticBounds(d)
           /\ \A k \in DOMAIN cands :
                 ~InSyntacticBounds(cands[k]) => cands[k] \notin returned

C2_Witness ==
    /\ dates_out.called
    /\ dates_out.raised = "none"
    /\ journal_text = D_13_01_2024 \o D_01_15_2023
    /\ dates_out.ret = <<D_01_15_2023>>

\* C3: extract_secret_codes returns, left to right, exactly the substrings
\* "AZMAR-" plus three digits of the text: each returned string has that shape,
\* none is omitted, duplicates are kept, and "AZMAR-" followed by fewer than
\* three digits contributes nothing.
C3_AllCodesInOrder ==
    codes_out.called =>
        /\ codes_out.raised = "none"
        /\ codes_out.ret = CodeShapesFrom(journal_text, 1)
        /\ \A k \in DOMAIN codes_out.ret :
              CodeShapeAt(codes_out.ret[k], 1) /\ Len(codes_out.ret[k]) = 9
        /\ Len(codes_out.ret)
              = Cardinality({i \in 1..Len(journal_text) : CodeShapeAt(journal_text, i)})

C3_Witness ==
    /\ codes_out.called
    /\ journal_text = AZMAR_042 \o AZMAR_123 \o AZMAR_042
    /\ codes_out.ret = <<AZMAR_042, AZMAR_123, AZMAR_042>>

\* C4: the list extract_journal_dates returns is a subsequence of the
\* date-shaped candidates in their order of appearance: the accepted dates keep
\* their order and their literal text, and a date accepted once is returned as
\* many times as it is a candidate.
C4_OrderAndDuplicatesKept ==
    dates_out.called =>
        LET cands == Candidates(journal_text)
        IN /\ IsSubseq(dates_out.ret, cands)
           /\ OccursInOrder(dates_out.ret, 1, journal_text, 1)
           /\ \A d \in Range(dates_out.ret) : Count(dates_out.ret, d) = Count(cands, d)

C4_Witness ==
    /\ dates_out.called
    /\ journal_text = D_01_15_2023 \o D_02_29_2024 \o D_01_15_2023
    /\ dates_out.ret = <<D_01_15_2023, D_02_29_2024, D_01_15_2023>>

\* C9: on "Found on 01/15/2023 near AZMAR-042, also 99/99/9999 and AZMAR-7."
\* extract_journal_dates returns ["01/15/2023"] and extract_secret_codes
\* returns ["AZMAR-042"].
C9_Scenario ==
    journal_text = Scenario =>
        /\ dates_out.called =>
              dates_out.ret = <<D_01_15_2023>> /\ dates_out.raised = "none"
        /\ codes_out.called =>
              codes_out.ret = <<AZMAR_042>> /\ codes_out.raised = "none"

C9_Witness ==
    /\ journal_text = Scenario
    /\ dates_out.called /\ dates_out.ret = <<D_01_15_2023>>
    /\ codes_out.called /\ codes_out.ret = <<AZMAR_042>>

\* C10: the extractors do not look at the characters around a match.  A code
\* shape is returned wherever it starts, also when more digits follow it; a
\* date shape that is an accepted calendar date and is not overlapped by an
\* earlier date shape is returned whatever digits surround it: "101/15/20239" gives
\* "01/15/2023".
C10_Unanchored ==
    /\ codes_out.called =>
          LET returned == Range(codes_out.ret)
          IN \A i \in 1..Len(journal_text) :
                CodeShapeAt(journal_text, i)
                    => SubSeq(journal_text, i, i + 8) \in returned
    /\ dates_out.called =>
          LET returned == Range(dates_out.ret)
              shapes == {i \in 1..Len(journal_text) : DateShapeAt(journal_text, i)}
          IN \A i \in shapes :
                ( /\ OnCalendar(SubSeq(journal_text, i, i + 9))
                  /\ WrittenForFormat(SubSeq(journal_text, i, i + 9))
                  /\ \A j \in 1..9 : (i - j) \notin shapes )
                    => SubSeq(journal_text, i, i + 9) \in returned
    /\ (dates_out.called /\ journal_text = <<"1">> \o D_01_15_2023 \o <<"9">>)
          => dates_out.ret = <<D_01_15_2023>>
    /\ (codes_out.called /\ journal_text = AZMAR_042 \o <<"9">>)
          => codes_out.ret = <<AZMAR_042>>

C10_Witness ==
    /\ journal_text = <<"1">> \o D_01_15_2023 \o <<"9">>
    /\ dates_out.called /\ dates_out.ret = <<D_01_15_2023>>
    /\ codes_out.called /\ codes_out.ret = <<>>

-----------------------------------------------------------------------------
(* Claims about the loaders, checked under SpecLoad                        *)

HasText(q, text) == \E k \in DOMAIN q : q[k].text = text

\* C5: a loader call never lets an exception out: whatever the underlying read
\* does (success, file not found, empty data, I/O failure, any other failure)
\* the call returns; it returns the loaded table and prints nothing on
\* success, and returns None after printing exactly one line on failure.
C5_LoadersNeverRaise ==
    last.fn # "none" =>
        /\ last.raised = "none"
        /\ last.outcome = "ok" =>
              /\ last.ret.kind = "DataFrame" /\ last.ret.source = last.path
              /\ last.out = <<>>
        /\ last.outcome # "ok" => last.ret = None /\ Len(last.out) = 1

C5_Witness ==
    /\ last.fn = "load_location_notes"
    /\ last.outcome = "ValueError"
    /\ last.ret = None
    /\ last.raised = "none"
    /\ Len(last.out) = 1
    /\ last.n = 2
    /\ Len(stdout) = 1

\* C6: in both loaders a missing file is reported as not found and never as a
\* generic I/O error, empty data is reported as the empty-file error and any
\* other I/O failure as the generic I/O error; the result is None each time.
C6_OneMessagePerCategory ==
    last.fn # "none" =>
        /\ last.outcome = "FileNotFoundError" =>
              /\ last.out = <<Line("Error: File not found at", last.path, "")>>
              /\ last.ret = None
        /\ last.outcome = "EmptyDataError" =>
              /\ last.out = <<Line("Error: The file is empty.", last.path, "")>>
              /\ last.ret = None
        /\ last.outcome \in {"PermissionError", "IOError"} =>
              /\ last.out = <<Line("Error: I/O error occurred while accessing", last.path, last.outcome)>>
              /\ last.ret = None

C6_Witness ==
    /\ last.fn = "load_artifact_data"
    /\ last.outcome = "FileNotFoundError"
    /\ last.path = "nowhere.dat"
    /\ last.out = <<Line("Error: File not found at", "nowhere.dat", "")>>
    /\ last.ret = None

-----------------------------------------------------------------------------
(* Claims about the __main__ block, checked under SpecMain                 *)

\* C7: a run of the __main__ block invokes load_artifact_data, then
\* load_location_notes, then extract_journal_dates and extract_secret_codes.
C7_AllFourInvoked ==
    pc = "done" =>
        calls = <<"load_artifact_data", "load_location_notes",
                  "extract_journal_dates", "extract_secret_codes">>

\* C8: each stage of the __main__ block has its own handler: whichever stages
\* fail, no exception ends the run, every later stage is started, and no
\* stage and no loader runs twice.
C8_StagesIsolated ==
    /\ uncaught = "none"
    /\ pc \in {"artifacts", "locations", "journal", "done"}
    /\ pc = "artifacts" => started = <<>>
    /\ pc = "locations" => started = <<"artifacts">>
    /\ pc = "journal" => started = <<"artifacts", "locations">>
    /\ pc = "done" => started = <<"artifacts", "locations", "journal">>
    /\ pc # "done" => ENABLED MainNext
    /\ \A f \in Range(calls) : Count(calls, f) = 1

C8_Witness ==
    /\ pc = "done"
    /\ uncaught = "none"
    /\ started = <<"artifacts", "locations", "journal">>
    /\ HasText(stdout, "An error occurred loading artifact data")
    /\ HasText(stdout, "Error: File not found at")
    /\ HasText(stdout, "An unexpected error occurred")
    /\ artifacts_df # None
    /\ locations_df = None

====
